---- MODULE Spec2Model ----
(***************************************************************************)
(* LuminaDiffusersNode (lumina_diffusers_node.py): the generate handler,   *)
(* the custom_call / model_fn closures it installs on the pipeline, and    *)
(* the ODE integrator (utils.ODE) that custom_call drives.                 *)
(*                                                                         *)
(* Times are exact rationals <<num, den>>, den > 0.  Scaling factors are   *)
(* fixed-point numbers with One units per 1.0.                             *)
(***************************************************************************)
EXTENDS Integers, Sequences, FiniteSets, TLC

VARIABLES
    pipe,       \* self.pipe: "None" or "loaded"
    instCall,   \* the pipeline object's instance attribute __call__
    xattn,      \* self.pipe.cross_attention_kwargs
    shift,      \* self.pipe.scheduler.config.shift (0: not set by generate yet)
    ncalls,     \* number of generate calls made so far
    args,       \* arguments of the latest generate call
    origCall,   \* original_call captured by the latest generate call
    ret,        \* value returned by the latest generate call
    history,    \* per argument tuple: the set of outputs returned so far
    env,        \* variables captured by the custom_call / model_fn closures
    pc,         \* position of the sampling run driven by custom_call
    step,       \* 1-based index of the integration step in progress
    k,          \* 1-based index of the next evaluation within the step
    x,          \* latent state: number of step updates applied so far
    calls,      \* trace of the vector-field evaluations of the run
    out         \* what custom_call delivered to its caller

vars == <<pipe, instCall, xattn, shift, ncalls, args, origCall, ret, history,
          env, pc, step, k, x, calls, out>>

genVars == <<pipe, instCall, xattn, shift, ncalls, args, origCall, ret, history>>
runVars == <<env, pc, step, k, x, calls, out>>

----------------------------------------------------------------------------
(* Bounds *)

MaxCalls == 3
MaxSteps == 3
MaxTShift == 2

----------------------------------------------------------------------------
(* Program constants *)

\* the literal 1.0 in fixed point
One == 1000
sample_size == 128
vae_scale_factor == 8
hidden_size == 2304
num_attention_heads == 32
PlaceholderChannels == 4
ImageChannels == 3

Solvers == {"euler", "midpoint", "rk4"}
Widths == {512, 1024}
Heights == {1024, 2048}

\* scaling_watershed values in [0, 1]
Watersheds == {<<0, 1>>, <<1, 2>>, <<2, 3>>, <<1, 1>>}

----------------------------------------------------------------------------
(* Exact rational arithmetic on <<num, den>> *)

RECURSIVE GCD(_, _)
GCD(a, b) == IF b = 0 THEN a ELSE GCD(b, a % b)

Norm(r) ==
    LET g == GCD(r[1], r[2])
    IN  IF r[1] = 0 THEN <<0, 1>> ELSE <<r[1] \div g, r[2] \div g>>

RatLess(a, b) == a[1] * b[2] < b[1] * a[2]
RatEq(a, b) == a[1] * b[2] = b[1] * a[2]
RatLeq(a, b) == a[1] * b[2] <= b[1] * a[2]
RatMid(a, b) == Norm(<<a[1] * b[2] + b[1] * a[2], 2 * a[2] * b[2]>>)
Zero == <<0, 1>>
Unit == <<1, 1>>

RECURSIVE ISqrtIn(_, _, _)
ISqrtIn(n, lo, hi) ==
    IF lo >= hi THEN lo
    ELSE LET mid == (lo + hi + 1) \div 2
         IN  IF mid * mid <= n THEN ISqrtIn(n, mid, hi)
                               ELSE ISqrtIn(n, lo, mid - 1)

\* floor(sqrt(n)) for 0 <= n < 2^31
ISqrt(n) == ISqrtIn(n, 0, 46340)

----------------------------------------------------------------------------
(* Time-aware scaling: the body of model_fn *)

default_image_size == sample_size * vae_scale_factor

head_dim == hidden_size \div num_attention_heads

\* math.sqrt(width * height / default_image_size**2), in fixed point.  The
\* three sizes are multiples of 64, so the quotient is taken on the sizes
\* divided by 64 to stay inside 32-bit integers.
scale_factor(width, height) ==
    ISqrt(((width \div 64) * (height \div 64) * One * One)
          \div ((default_image_size \div 64) * (default_image_size \div 64)))

linear_factor_leq(e, current_t) ==
    IF RatLeq(current_t, e.scaling_watershed)
    THEN scale_factor(e.width, e.height) ELSE One

linear_factor(e, current_t) ==
    IF RatLess(current_t, e.scaling_watershed)
    THEN scale_factor(e.width, e.height) ELSE One

\* an ntk_factor that carries the scale on both sides of the watershed
ntk_factor_always(e, current_t) == scale_factor(e.width, e.height)

ntk_factor(e, current_t) ==
    IF RatLess(current_t, e.scaling_watershed)
    THEN One ELSE scale_factor(e.width, e.height)

\* The embedding generator is a pure function of its five inputs; its value
\* is kept as the tuple of inputs it was computed from.
get_2d_rotary_pos_embed_lumina(dim, h, w, lin, ntk) ==
    [dim |-> dim, height_tokens |-> h, width_tokens |-> w,
     linear_factor |-> lin, ntk_factor |-> ntk]

image_rotary_emb(e, t) ==
    get_2d_rotary_pos_embed_lumina(head_dim, e.height \div 8, e.width \div 8,
                                   linear_factor(e, t), ntk_factor(e, t))

\* What the transformer can do when invoked: return a velocity or raise.
Errors == {"RuntimeError", "OutOfMemoryError"}
Velocity == [kind |-> "value"]
Raise(exc) == [kind |-> "raise", exc |-> exc]

TransformerCall(xx, t, emb, tr) ==
    [x |-> xx, t |-> t, image_rotary_emb |-> emb, outcome |-> tr]

\* A model_fn that reuses the embedding of the previous evaluation.
model_fn_cached(e, xx, t, tr, trace) ==
    LET emb == IF trace = <<>> THEN image_rotary_emb(e, t)
               ELSE trace[Len(trace)].image_rotary_emb
    IN  [calls |-> Append(trace, TransformerCall(xx, t, emb, tr)),
         result |-> tr]

\* A model_fn that catches the transformer's error and returns a velocity.
model_fn_swallow(e, xx, t, tr, trace) ==
    [calls |-> Append(trace, TransformerCall(xx, t, image_rotary_emb(e, t), tr)),
     result |-> Velocity]

\* model_fn(x, t): computes the factors and the embedding for t, then invokes
\* the transformer with it; tr is what the transformer does, trace the
\* transformer invocations so far.  Whatever the transformer returns or
\* raises is model_fn's own outcome.
model_fn(e, xx, t, tr, trace) ==
    [calls |-> Append(trace, TransformerCall(xx, t, image_rotary_emb(e, t), tr)),
     result |-> tr]

----------------------------------------------------------------------------
(* utils.ODE: the integrator custom_call drives *)

EvalsPerStep_one(solver) == 1

\* vector-field evaluations per step of each scheme
EvalsPerStep(solver) ==
    CASE solver = "euler" -> 1
      [] solver = "midpoint" -> 2
      [] solver = "rk4" -> 4

time_shift_factor(t_shift) == 1 + t_shift

\* A warp that is not renormalised: s * t
time_shift_linear(s, t) == Norm(<<s * t[1], t[2]>>)

\* the shift transform: s * t / (1 + (s - 1) * t)
time_shift(s, t) == Norm(<<s * t[1], t[2] + (s - 1) * t[1]>>)

\* the unwarped schedule: N equal steps from 1 down to 0, the end point
\* 0 being the target of the last step and not part of the schedule
Baseline(N) == [i \in 1..N |-> Norm(<<N - i + 1, N>>)]

\* ODE(num_inference_steps, solver, t_shift).t
Timesteps(N, t_shift) ==
    [i \in 1..N |-> time_shift(time_shift_factor(t_shift), Baseline(N)[i])]

ODE(N, solver, t_shift) ==
    [num_steps |-> N, solver |-> solver, t_shift |-> t_shift,
     t |-> Timesteps(N, t_shift)]

StepStart(ode, i) == ode.t[i]
StepEnd(ode, i) == IF i < ode.num_steps THEN ode.t[i + 1] ELSE Zero

\* time of the j-th evaluation of step i
EvalTime(ode, i, j) ==
    LET t0 == StepStart(ode, i)
        t1 == StepEnd(ode, i)
    IN  CASE j = 1 -> t0
          [] j = 4 -> t1
          [] OTHER -> RatMid(t0, t1)

\* custom_call returns whatever ode.sample returns or raises
custom_call(sampled) == sampled

NoRet == [kind |-> "none"]

Envs ==
    [width : Widths, height : Heights, scaling_watershed : Watersheds,
     ode : {ODE(N, s, ts) : N \in 1..MaxSteps, s \in Solvers, ts \in 0..MaxTShift}]

IdleEnv == [width |-> 0, height |-> 0, scaling_watershed |-> Zero,
            ode |-> [num_steps |-> 0, solver |-> "euler", t_shift |-> 0, t |-> <<>>]]

----------------------------------------------------------------------------
(* generate *)

\* argument tuples of generate the model draws from
GenArgs ==
    [width : Widths, height : {1024}, batch_size : {2}, seed : {-1, 7},
     proportional_attn : BOOLEAN, t_shift : {4},
     num_inference_steps : {2}, solver : {"midpoint"},
     scaling_watershed : {Unit}]

\* seeds int.from_bytes(os.urandom(4), "big") can give
RandomSeeds == {11, 12}

NoArgs == [kind |-> "none"]
NoAttr == [kind |-> "absent"]
Uncaptured == [kind |-> "uncaptured"]

\* the bound method LuminaText2ImgPipeline.__call__ of the pipeline object
BoundDefault == [kind |-> "pipeline_call"]

\* the closure custom_call with the variables of the call that made it
Closure(a) ==
    [kind |-> "custom_call",
     env |-> [width |-> a.width, height |-> a.height,
              scaling_watershed |-> a.scaling_watershed,
              ode |-> ODE(a.num_inference_steps, a.solver, a.t_shift)]]

\* self.pipe.__call__ read as an attribute: the instance attribute when there
\* is one, else the method of the class
GetCallAttr(inst) == IF inst = NoAttr THEN BoundDefault ELSE inst

\* self.pipe(**pipe_args): a call expression looks __call__ up on the type
\* of the object, never in the instance's attributes
InvokedCall(inst) == BoundDefault

\* cross_attention_kwargs that keeps the old value when proportional_attn is off
cross_attention_kwargs_keep(a, old) ==
    IF a.proportional_attn
    THEN [base_sequence_length |-> (default_image_size \div 16) * (default_image_size \div 16)]
    ELSE old

cross_attention_kwargs(a, old) ==
    IF a.proportional_attn
    THEN [base_sequence_length |-> (default_image_size \div 16) * (default_image_size \div 16)]
    ELSE [kind |-> "None"]

pipe_args(a, generator) ==
    [height |-> a.height, width |-> a.width,
     num_inference_steps |-> a.num_inference_steps,
     num_images_per_prompt |-> a.batch_size, generator |-> generator,
     output_type |-> "pt", scaling_watershed |-> a.scaling_watershed]

\* The pipeline's own __call__: its step loop, a function of its arguments
\* and of the attributes of the pipeline object; the images come back as a
\* (batch, channels, height, width) tensor.
PipelineCall(pa, xa, sh) ==
    [via |-> "pipeline_loop",
     images |-> [shape |-> <<pa.num_images_per_prompt, ImageChannels, pa.height, pa.width>>,
                 from |-> [args |-> pa, cross_attention_kwargs |-> xa, shift |-> sh]]]

\* custom_call(**pipe_args) on closure c: ode.sample(model_fn, **kwargs), whose
\* container carries the final latents, (batch, channels, height/8, width/8)
SampleCall(c, pa, xa, sh) ==
    [via |-> "ode_sample",
     images |-> [shape |-> <<pa.num_images_per_prompt, PlaceholderChannels,
                             c.env.height \div 8, c.env.width \div 8>>,
                 from |-> [args |-> pa, cross_attention_kwargs |-> xa, shift |-> sh,
                           ode |-> c.env.ode]]]

\* the callable a call expression selected, applied to pipe_args
Invoke(target, pa, xa, sh) ==
    IF target.kind = "custom_call"
    THEN SampleCall(target, pa, xa, sh)
    ELSE PipelineCall(pa, xa, sh)

\* images.permute(0, 2, 3, 1)
process_output(images) ==
    [shape |-> <<images.shape[1], images.shape[3], images.shape[4], images.shape[2]>>,
     from |-> images.from]

\* images.clone().detach().to(float32)
process_latents(images, height, width) == [samples |-> images]

Placeholder(a) ==
    [kind |-> "placeholder", via |-> "handler",
     image |-> [shape |-> <<a.batch_size, a.height, a.width, 3>>, from |-> "zeros"],
     latent |-> [samples |-> [shape |-> <<a.batch_size, PlaceholderChannels,
                                          a.height \div 8, a.width \div 8>>,
                              from |-> "zeros"]]]

Returned(output) ==
    [kind |-> "ok", via |-> output.via,
     image |-> process_output(output.images),
     latent |-> process_latents(output.images, 0, 0)]

RunIdle ==
    /\ env = IdleEnv /\ pc = "idle" /\ step = 0 /\ k = 0 /\ x = 0
    /\ calls = <<>> /\ out = NoRet

Init ==
    /\ pipe = "None" /\ instCall = NoAttr
    /\ xattn = [kind |-> "unset"] /\ shift = 0
    /\ ncalls = 0 /\ args = NoArgs /\ origCall = Uncaptured /\ ret = NoRet
    /\ history = <<>>
    /\ RunIdle

\* load_model fails (its handler prints and returns), self.pipe stays None,
\* generate raises ValueError and its handler returns the placeholder
GenerateLoadFails ==
    \E a \in GenArgs :
        /\ ncalls < MaxCalls /\ pipe = "None"
        /\ ncalls' = ncalls + 1 /\ args' = a
        /\ origCall' = Uncaptured
        /\ ret' = Placeholder(a)
        /\ history' = Append(history, [args |-> a, ret |-> ret'])
        /\ UNCHANGED <<pipe, instCall, xattn, shift>>
        /\ UNCHANGED runVars

\* the pipeline is there (loaded now or before); lines 74-143 run
GenerateSetup(a) ==
    /\ ncalls < MaxCalls
    /\ ncalls' = ncalls + 1 /\ args' = a
    /\ pipe' = "loaded"
    /\ xattn' = cross_attention_kwargs(a, xattn)
    /\ shift' = time_shift_factor(a.t_shift)
    /\ origCall' = GetCallAttr(instCall)
    /\ UNCHANGED runVars

\* the pipeline invocation raises; line 149 is skipped and the handler
\* returns the placeholder
GeneratePipelineRaises ==
    \E a \in GenArgs :
        /\ GenerateSetup(a)
        /\ instCall' = Closure(a)
        /\ ret' = Placeholder(a)
        /\ history' = Append(history, [args |-> a, ret |-> ret'])

\* the pipeline invocation returns; __call__ is restored and the output
\* processed
GenerateReturns ==
    \E a \in GenArgs :
      \E seed \in (IF a.seed = -1 THEN RandomSeeds ELSE {a.seed}) :
        /\ GenerateSetup(a)
        /\ instCall' = origCall'
        /\ ret' = Returned(Invoke(InvokedCall(Closure(a)), pipe_args(a, seed),
                                  xattn', shift'))
        /\ history' = Append(history, [args |-> a, ret |-> ret'])

Next == GenerateLoadFails \/ GeneratePipelineRaises \/ GenerateReturns

Spec == Init /\ [][Next]_vars

----------------------------------------------------------------------------
(* A sampling run: custom_call invoked with model_fn as the callback *)

InitSample ==
    /\ pipe = "loaded" /\ instCall = NoAttr
    /\ xattn = [kind |-> "unset"] /\ shift = 0
    /\ ncalls = 0 /\ args = NoArgs /\ origCall = Uncaptured /\ ret = NoRet
    /\ history = <<>>
    /\ env \in Envs
    /\ pc = "ready" /\ step = 0 /\ k = 0 /\ x = 0
    /\ calls = <<>> /\ out = NoRet

\* custom_call(**kwargs) enters ode.sample(model_fn, **kwargs)
CustomCall ==
    /\ pc = "ready"
    /\ pc' = "sampling" /\ step' = 1 /\ k' = 1
    /\ UNCHANGED <<env, x, calls, out>>
    /\ UNCHANGED genVars

\* one call of the vector-field callback by the integrator; tr is what the
\* transformer does in it
Evaluate(tr) ==
    /\ LET t == EvalTime(env.ode, step, k)
           r == model_fn(env, x, t, tr, calls)
       IN  /\ calls' = r.calls
           /\ IF r.result.kind = "raise"
              THEN /\ pc' = "raised"
                   /\ out' = custom_call([kind |-> "error", exc |-> r.result.exc,
                                          step |-> step, t |-> t])
                   /\ UNCHANGED <<step, k, x>>
              ELSE IF k < EvalsPerStep(env.ode.solver)
              THEN /\ k' = k + 1
                   /\ UNCHANGED <<step, x, pc, out>>
              ELSE /\ k' = 1 /\ step' = step + 1 /\ x' = x + 1
                   /\ UNCHANGED <<pc, out>>
    /\ UNCHANGED env
    /\ UNCHANGED genVars

VectorFieldReturns ==
    /\ pc = "sampling" /\ step <= env.ode.num_steps
    /\ Evaluate(Velocity)

VectorFieldRaises ==
    /\ pc = "sampling" /\ step <= env.ode.num_steps
    /\ \E exc \in Errors : Evaluate(Raise(exc))

\* after the last step ode.sample returns the final state
SampleReturns ==
    /\ pc = "sampling" /\ step = env.ode.num_steps + 1
    /\ pc' = "returned"
    /\ out' = custom_call([kind |-> "value", images |-> x])
    /\ UNCHANGED <<env, step, k, x, calls>>
    /\ UNCHANGED genVars

NextSample == CustomCall \/ VectorFieldReturns \/ VectorFieldRaises \/ SampleReturns

SpecSample == InitSample /\ [][NextSample]_vars

----------------------------------------------------------------------------
(* Properties of a sampling run (SpecSample) *)

RunScale == scale_factor(env.width, env.height)
EvalIdx == 1..Len(calls)
LinOf(i) == calls[i].image_rotary_emb.linear_factor
NtkOf(i) == calls[i].image_rotary_emb.ntk_factor

\* C1: in model_fn, for every time t and watershed: t < scaling_watershed puts
\* the resolution scale on linear_factor and 1.0 on ntk_factor; otherwise, the
\* exact boundary t = scaling_watershed included, the scale goes on ntk_factor
\* and linear_factor is 1.0.  No other value is ever produced.
C1_SharpWatershed ==
    \A i \in EvalIdx :
        IF RatLess(calls[i].t, env.scaling_watershed)
        THEN LinOf(i) = RunScale /\ NtkOf(i) = One
        ELSE LinOf(i) = One /\ NtkOf(i) = RunScale

\* an evaluation exactly at the watershed, at a resolution whose scale is not 1.0
C1_Witness ==
    \E i \in EvalIdx :
        /\ RatEq(calls[i].t, env.scaling_watershed)
        /\ RunScale # One
        /\ NtkOf(i) = RunScale /\ LinOf(i) = One

InLinearRegime(i) == LinOf(i) = RunScale /\ NtkOf(i) = One
InNtkRegime(i) == LinOf(i) = One /\ NtkOf(i) = RunScale

Raised(i) == calls[i].outcome.kind = "raise"

\* C5: when the transformer raises inside an evaluation the run aborts there:
\* that evaluation is the last one made, sample's caller gets that error and no
\* value, and a value is delivered only by a run in which nothing raised and
\* every step was applied.  custom_call never substitutes a placeholder.
C5_ErrorAbortsRun ==
    /\ \A i \in EvalIdx :
           Raised(i) =>
               /\ i = Len(calls) /\ pc = "raised"
               /\ out.kind = "error" /\ out.exc = calls[i].outcome.exc
               /\ out.step = step /\ out.t = calls[i].t
    /\ pc = "raised" => (calls # <<>> /\ Raised(Len(calls)))
    /\ out.kind = "value" =>
           /\ pc = "returned" /\ \A i \in EvalIdx : ~Raised(i)
           /\ out.images = env.ode.num_steps
    /\ out.kind \in {"none", "error", "value"}

\* a run aborted in the middle of a step, after earlier evaluations succeeded
C5_Witness ==
    /\ pc = "raised" /\ k > 1 /\ step > 1
    /\ out.kind = "error"

ExpectedEvals(solver) ==
    IF solver = "euler" THEN 1 ELSE IF solver = "midpoint" THEN 2 ELSE 4

\* C6: a run of N steps makes 1, 2 or 4 evaluations per step for euler,
\* midpoint, rk4: while it runs the evaluations made are those of the
\* completed steps plus those of the step in progress, a step's update is
\* applied only after all its evaluations, and the run returns after the N-th
\* step with exactly N, 2N or 4N evaluations made.
C6_EvalsPerStep ==
    LET K == ExpectedEvals(env.ode.solver)
        N == env.ode.num_steps
    IN  /\ pc = "sampling" =>
               /\ k \in 1..K /\ step \in 1..(N + 1)
               /\ Len(calls) = (step - 1) * K + (k - 1)
               /\ x = step - 1
               /\ step = N + 1 => k = 1
        /\ pc = "raised" =>
               /\ Len(calls) = (step - 1) * K + k
               /\ x = step - 1
        /\ pc = "returned" =>
               /\ Len(calls) = N * K /\ x = N /\ step = N + 1

\* a completed rk4 run of several steps
C6_Witness ==
    /\ pc = "returned" /\ env.ode.solver = "rk4" /\ env.ode.num_steps >= 2
    /\ Len(calls) = 4 * env.ode.num_steps

\* C7: every evaluation invokes the transformer with the embedding computed
\* from the factor pair of that evaluation's own time; none carries an
\* embedding computed for another time.
C7_EmbeddingPerEvaluation ==
    \A i \in EvalIdx :
        calls[i].image_rotary_emb =
            get_2d_rotary_pos_embed_lumina(
                head_dim, env.height \div 8, env.width \div 8,
                IF RatLess(calls[i].t, env.scaling_watershed) THEN RunScale ELSE One,
                IF RatLess(calls[i].t, env.scaling_watershed) THEN One ELSE RunScale)

\* two evaluations of one run with different embeddings
C7_Witness ==
    \E i, j \in EvalIdx :
        i < j /\ calls[i].image_rotary_emb # calls[j].image_rotary_emb

\* C9: the schedule of a run has num_inference_steps entries, is strictly
\* decreasing, lies in [0, 1], is the baseline warped by 1 + t_shift, and for
\* t_shift = 0 is the baseline itself.
C9_Schedule ==
    LET ode == env.ode
        N == ode.num_steps
        s == 1 + ode.t_shift
    IN  /\ Len(ode.t) = N
        /\ \A i \in 1..N : RatLeq(Zero, ode.t[i]) /\ RatLeq(ode.t[i], Unit)
        /\ \A i \in 1..(N - 1) : RatLess(ode.t[i + 1], ode.t[i])
        /\ \A i \in 1..N :
               \* t' = s * b / (1 + (s - 1) * b) for the baseline time b
               ode.t[i][1] * (Baseline(N)[i][2] + (s - 1) * Baseline(N)[i][1])
                   = s * Baseline(N)[i][1] * ode.t[i][2]
        /\ ode.t_shift = 0 => \A i \in 1..N : RatEq(ode.t[i], <<N - i + 1, N>>)

\* a warped schedule of several steps that a run has gone through
C9_Witness ==
    /\ pc = "returned" /\ env.ode.t_shift > 0 /\ env.ode.num_steps >= 3
    /\ ~RatEq(env.ode.t[2], Baseline(env.ode.num_steps)[2])

----------------------------------------------------------------------------
(* Properties of generate (Spec) *)

HasReturned == ret.kind \in {"ok", "placeholder"}

\* C3: for every generate call with batch_size b, height h and width w the
\* returned LATENT record's "samples" tensor has shape (b, channels, h/8, w/8),
\* on the successful path and on the placeholder path alike.
C3_LatentShape ==
    HasReturned =>
        LET sh == ret.latent.samples.shape
        IN  /\ Len(sh) = 4
            /\ sh[1] = args.batch_size
            /\ sh[3] = args.height \div 8
            /\ sh[4] = args.width \div 8

\* C4: every generate call that returns a non-placeholder result obtained it
\* from custom_call's ode.sample, not from the pipeline's own step loop.
C4_CustomIntegratorRuns ==
    ret.kind = "ok" => ret.via = "ode_sample"

HistIdx == 1..Len(history)
SameFixedSeedArgs(i, j) ==
    history[i].args = history[j].args /\ history[i].args.seed # -1

C10_CallRestored ==
    HasReturned =>
        /\ origCall # Uncaptured => GetCallAttr(instCall) = origCall
        /\ origCall.kind # "custom_call"
        /\ instCall.kind # "custom_call"

====
